---- MODULE Spec2Model ----
(***************************************************************************)
(* A model of the indicator engine of StockAnalysis (src/stock_analyzer.py *)
(* with the loader of src/stock_data.py).                                  *)
(*                                                                         *)
(* Numbers.  A numpy float is modelled by the real number it stands for,   *)
(* as an exact fraction <<n, d>> in lowest terms with d > 0, so the        *)
(* arithmetic below is the arithmetic of the code without the rounding of  *)
(* float64.  The three special floats that the code can produce are kept:  *)
(* <<1, 0>> is inf, <<-1, 0>> is -inf and <<0, 0>> is nan.  The sign of a  *)
(* zero is not kept (the code never divides by a negative zero).           *)
(*                                                                         *)
(* Arrays.  A one-dimensional numpy array is a record [dtype, data]: data  *)
(* is the sequence of its entries (Python index i is index i + 1 here) and *)
(* dtype is "float64" or "int64".  A store into an int64 array truncates.  *)
(***************************************************************************)
EXTENDS Integers, Sequences, FiniteSets, TLC

VARIABLES
    stocks,     \* StockAnalyzer.stocks: symbol -> closing prices of the loaded stock
    price_series, \* the caller's price series, the array it passes to the indicators
    call        \* the call that has just returned (or raised), NoCall between calls

vars == <<stocks, price_series, call>>

\* ----------------------------------------------------------------- bounds

\* Longest price series passed to an indicator.
MaxLen == 4
\* Prices passed to an indicator are the whole numbers 1 .. MaxPrice.
MaxPrice == 2
\* Windows passed to an indicator are 1 .. MaxWindow.
MaxWindow == 3
\* Most data rows in a stock's CSV file.
MaxRows == 4
\* Longest list of symbols passed to calculate_correlation_matrix.
MaxSymbols == 2

\* The largest max_count of select_multiple_stocks.
MaxCount == 3

\* ----------------------------------------------------------------- floats

Abs(n) == IF n < 0 THEN -n ELSE n

Sign(n) == IF n > 0 THEN 1 ELSE IF n < 0 THEN -1 ELSE 0

RECURSIVE Gcd(_, _)
Gcd(a, b) == IF b = 0 THEN a ELSE Gcd(b, a % b)

\* The float n / d (d = 0 gives inf, -inf or nan, as a float division does).
Float(n, d) ==
    IF d = 0 THEN <<Sign(n), 0>>
    ELSE LET g == Gcd(Abs(n), Abs(d))
             s == Sign(d)
         IN  <<(s * n) \div g, (s * d) \div g>>

NaN == <<0, 0>>

FromInt(n) == <<n, 1>>

IsNaN(x) == x = NaN

IsFinite(x) == x[2] # 0

Neg(x) == <<-x[1], x[2]>>

Add(x, y) ==
    IF IsNaN(x) \/ IsNaN(y) THEN NaN
    ELSE IF ~IsFinite(x) /\ ~IsFinite(y) THEN (IF x = y THEN x ELSE NaN)
    ELSE IF ~IsFinite(x) THEN x
    ELSE IF ~IsFinite(y) THEN y
    ELSE Float(x[1] * y[2] + y[1] * x[2], x[2] * y[2])

Sub(x, y) == Add(x, Neg(y))

Mul(x, y) ==
    IF IsNaN(x) \/ IsNaN(y) THEN NaN
    ELSE IF ~IsFinite(x) \/ ~IsFinite(y) THEN <<Sign(x[1]) * Sign(y[1]), 0>>
    ELSE Float(x[1] * y[1], x[2] * y[2])

\* numpy's true division: x / 0 is inf, -inf or (for x = 0) nan, with a warning
\* and no exception.
Div(x, y) ==
    IF IsNaN(x) \/ IsNaN(y) THEN NaN
    ELSE IF ~IsFinite(y) THEN (IF IsFinite(x) THEN FromInt(0) ELSE NaN)
    ELSE IF ~IsFinite(x) THEN <<x[1] * (IF y[1] < 0 THEN -1 ELSE 1), 0>>
    ELSE IF y[1] = 0 THEN <<Sign(x[1]), 0>>
    ELSE Float(x[1] * y[2], x[2] * y[1])

\* x <= y on floats: false as soon as one side is nan.
Leq(x, y) ==
    IF IsNaN(x) \/ IsNaN(y) THEN FALSE
    ELSE IF ~IsFinite(x) /\ ~IsFinite(y) THEN x[1] <= y[1]
    ELSE IF ~IsFinite(x) THEN x[1] < 0
    ELSE IF ~IsFinite(y) THEN y[1] > 0
    ELSE x[1] * y[2] <= y[1] * x[2]

Less(x, y) == Leq(x, y) /\ x # y

\* The value stored into an array of the given dtype: an int64 array keeps the
\* integer part (truncation toward zero), a float64 array keeps the value.
Cast(dtype, x) ==
    IF dtype = "int64" /\ IsFinite(x)
    THEN FromInt(Sign(x[1]) * (Abs(x[1]) \div x[2]))
    ELSE x

\* ----------------------------------------------------------------- numpy

Array(dtype, data) == [dtype |-> dtype, data |-> data]

\* np.array([])
EmptyArray == Array("float64", <<>>)

\* The dtype of the result of an arithmetic operation on two arrays.
ResultType(t1, t2) == IF t1 = "int64" /\ t2 = "int64" THEN "int64" ELSE "float64"

RECURSIVE SumSeq(_)
SumSeq(s) == IF s = <<>> THEN FromInt(0) ELSE Add(s[1], SumSeq(Tail(s)))

\* np.mean of a sequence (nan for an empty one).
np_mean(s) == Div(SumSeq(s), FromInt(Len(s)))

\* a[lo:hi] for 0 <= lo, as Python slices: clipped to the sequence.
Slice(s, lo, hi) ==
    LET h == IF hi > Len(s) THEN Len(s) ELSE hi
    IN  IF lo >= h THEN <<>> ELSE SubSeq(s, lo + 1, h)

\* np.ones(window) / window
np_ones_over(window) == [j \in 1..window |-> Div(FromInt(1), FromInt(window))]

\* np.convolve(a, v, 'valid') for len(a) >= len(v) >= 1: entry k is the sum over
\* j of a[k + j] * v[len(v) - 1 - j].
np_convolve_valid(a, v) ==
    [k \in 1..(Len(a) - Len(v) + 1) |->
        SumSeq([j \in 1..Len(v) |-> Mul(a[k + j - 1], v[Len(v) - j + 1])])]

\* What a call does: it returns a tuple of values or raises an exception.
Return(values) == [outcome |-> "return", ret |-> values]

Raise(exception) == [outcome |-> exception, ret |-> <<>>]

\* ----------------------------------------------------------------- StockAnalyzer

\* calculate_sma with the length test off by one (<= for <).
calculate_sma_off_by_one(prices, window) ==
    IF Len(prices.data) <= window
    THEN Return(<<EmptyArray>>)
    ELSE Return(<<Array("float64",
                        np_convolve_valid(prices.data, np_ones_over(window)))>>)

calculate_sma(prices, window) ==
    IF Len(prices.data) < window
    THEN Return(<<EmptyArray>>)
    ELSE Return(<<Array("float64",
                        np_convolve_valid(prices.data, np_ones_over(window)))>>)

\* ema_loop with the previous entry weighted by alpha instead of 1 - alpha.
RECURSIVE ema_loop_alpha_twice(_, _, _, _, _)
ema_loop_alpha_twice(data, t, alpha, ema, i) ==
    IF i > Len(data) THEN ema
    ELSE ema_loop_alpha_twice(data, t, alpha,
                  Append(ema, Cast(t, Add(Mul(alpha, data[i]),
                                          Mul(alpha, ema[i - 1])))),
                  i + 1)

\* The loop of calculate_ema from index i on (an index of data, Python's i + 1):
\* ema holds the entries stored so far, each cast to the dtype t of the array.
RECURSIVE ema_loop(_, _, _, _, _)
ema_loop(data, t, alpha, ema, i) ==
    IF i > Len(data) THEN ema
    ELSE ema_loop(data, t, alpha,
                  Append(ema, Cast(t, Add(Mul(alpha, data[i]),
                                          Mul(Sub(FromInt(1), alpha), ema[i - 1])))),
                  i + 1)

calculate_ema(prices, window) ==
    IF Len(prices.data) < window
    THEN Return(<<EmptyArray>>)
    ELSE LET t == prices.dtype
             seed == Cast(t, np_mean(Slice(prices.data, 0, window)))
             alpha == Div(FromInt(2), FromInt(window + 1))
         IN  Return(<<Array(t, ema_loop(prices.data, t, alpha,
                                        [i \in 1..window |-> seed], window + 1))>>)


\* The gains of calculate_rsi: np.where(deltas > 0, deltas, 0) of np.diff(prices).
rsi_gains(data) ==
    [k \in 1..(Len(data) - 1) |->
        LET delta == Sub(data[k + 1], data[k])
        IN  IF Less(FromInt(0), delta) THEN delta ELSE FromInt(0)]

\* The losses of calculate_rsi: np.where(deltas < 0, -deltas, 0).
rsi_losses(data) ==
    [k \in 1..(Len(data) - 1) |->
        LET delta == Sub(data[k + 1], data[k])
        IN  IF Less(delta, FromInt(0)) THEN Neg(delta) ELSE FromInt(0)]

\* The loop of calculate_rsi for one of the two averages, from Python index i
\* on: avg holds avg[0 .. i-1], each entry cast to the dtype t of the array.
RECURSIVE rsi_loop(_, _, _, _, _, _)
rsi_loop(t, n, window, x, avg, i) ==
    IF i >= n THEN avg
    ELSE rsi_loop(t, n, window, x,
                  Append(avg, Cast(t, Div(Add(Mul(avg[i], FromInt(window - 1)), x[i]),
                                          FromInt(window)))),
                  i + 1)

\* avg_gain (x = gains) and avg_loss (x = losses) of calculate_rsi for
\* len(prices) > window, as a sequence: zeros below index window, the mean of
\* x[:window] at index window, the smoothed recurrence above it.  The array is
\* np.zeros_like(prices), so every store is cast to the dtype of prices.
rsi_avg(t, n, window, x) ==
    rsi_loop(t, n, window, x,
             [j \in 1..(window + 1) |->
                 IF j <= window THEN FromInt(0)
                 ELSE Cast(t, np_mean(Slice(x, 0, window)))],
             window + 1)

calculate_rsi(prices, window) ==
    LET n == Len(prices.data) IN
    IF n < window
    THEN Return(<<EmptyArray>>)
    ELSE IF window >= n
    THEN Raise("IndexError")    \* avg_gain[window]: index out of bounds for size n
    ELSE LET avg_gain == rsi_avg(prices.dtype, n, window, rsi_gains(prices.data))
             avg_loss == rsi_avg(prices.dtype, n, window, rsi_losses(prices.data))
             rs == [j \in 1..n |-> Div(avg_gain[j], avg_loss[j])]
             rsi == [j \in 1..n |->
                        Sub(FromInt(100), Div(FromInt(100), Add(FromInt(1), rs[j])))]
         IN  Return(<<Array("float64", rsi)>>)

\* Whether numpy can broadcast two one-dimensional shapes together.
Broadcastable(n, m) == n = m \/ n = 1 \/ m = 1

\* b - a where the code computes a - b.
np_subtract_swapped(a, b) ==
    LET n == Len(a.data)
        m == Len(b.data)
        len == IF n = m THEN n ELSE IF n = 1 THEN m ELSE n
    IN  Array(ResultType(a.dtype, b.dtype),
              [i \in 1..len |-> Sub(b.data[IF m = 1 THEN 1 ELSE i],
                                    a.data[IF n = 1 THEN 1 ELSE i])])

\* a - b for two one-dimensional arrays that broadcast together.
np_subtract(a, b) ==
    LET n == Len(a.data)
        m == Len(b.data)
        len == IF n = m THEN n ELSE IF n = 1 THEN m ELSE n
    IN  Array(ResultType(a.dtype, b.dtype),
              [i \in 1..len |-> Sub(a.data[IF n = 1 THEN 1 ELSE i],
                                    b.data[IF m = 1 THEN 1 ELSE i])])

calculate_macd(prices, short_window, long_window, signal_window) ==
    LET ema_short == calculate_ema(prices, short_window).ret[1]
        ema_long == calculate_ema(prices, long_window).ret[1]
    IN  IF ~Broadcastable(Len(ema_short.data), Len(ema_long.data))
        THEN Raise("ValueError")    \* operands could not be broadcast together
        ELSE LET macd == np_subtract(ema_short, ema_long)
                 signal == calculate_ema(macd, signal_window).ret[1]
             IN  Return(<<macd, signal>>)

\* ----------------------------------------------------------------- square roots
\* np.std and np.corrcoef take square roots.  The real number a + c * sqrt(r),
\* for fractions a, c and r >= 0, is kept exactly as the record [a, c, r].

Zero == FromInt(0)

Surd(a, c, r) ==
    IF c = Zero \/ r = Zero THEN [a |-> a, c |-> Zero, r |-> Zero]
    ELSE [a |-> a, c |-> c, r |-> r]

\* A fraction as such a number.
Rat(q) == Surd(q, Zero, Zero)

\* np.sqrt of a fraction v >= 0.
Sqrt(v) == Surd(Zero, FromInt(1), v)

\* The sign (-1, 0 or 1) of the real number p + q * sqrt(r).
SurdSign(p, q, r) ==
    LET sp == Sign(p[1])
        sq == IF r = Zero THEN 0 ELSE Sign(q[1])
        p2 == Mul(p, p)
        q2r == Mul(Mul(q, q), r)
    IN  IF sq = 0 THEN sp
        ELSE IF sp = 0 \/ sp = sq THEN sq
        ELSE IF p2 = q2r THEN 0
        ELSE IF Less(q2r, p2) THEN sp ELSE sq

\* The sign of x - y for two such numbers over the same square root (or with one
\* of them a fraction).
SurdCompare(x, y) ==
    SurdSign(Sub(x.a, y.a), Sub(x.c, y.c), IF x.c = Zero THEN y.r ELSE x.r)

\* x * k and x + q for a fraction k or q.
SurdScale(x, k) == Surd(Mul(x.a, k), Mul(x.c, k), x.r)

SurdShift(x, q) == Surd(Add(x.a, q), x.c, x.r)

\* np.std with the sample divisor n - 1 (ddof=1) instead of n.
np_std_sample(s) ==
    LET m == np_mean(s)
    IN  Sqrt(Div(SumSeq([k \in 1..Len(s) |-> Mul(Sub(s[k], m), Sub(s[k], m))]),
                 FromInt(Len(s) - 1)))

\* np.std: the population standard deviation sqrt(mean(abs(x - mean(x)) ** 2)).
np_std(s) ==
    LET m == np_mean(s)
    IN  Sqrt(np_mean([k \in 1..Len(s) |-> Mul(Sub(s[k], m), Sub(s[k], m))]))

\* calculate_bollinger_bands with the two bands taken for each other.
calculate_bollinger_bands_swapped(prices, window, num_std) ==
    IF Len(prices.data) < window
    THEN Return(<<EmptyArray, EmptyArray, EmptyArray>>)
    ELSE LET sma == calculate_sma(prices, window).ret[1]
             len == Len(prices.data) - window + 1
             rolling_std ==
                 [i \in 1..len |-> np_std(Slice(prices.data, i - 1, i - 1 + window))]
             upper_band ==
                 [i \in 1..len |->
                     SurdShift(SurdScale(rolling_std[i], FromInt(-num_std)), sma.data[i])]
             lower_band ==
                 [i \in 1..len |->
                     SurdShift(SurdScale(rolling_std[i], FromInt(num_std)), sma.data[i])]
         IN  Return(<<sma, Array("float64", upper_band), Array("float64", lower_band)>>)

calculate_bollinger_bands(prices, window, num_std) ==
    IF Len(prices.data) < window
    THEN Return(<<EmptyArray, EmptyArray, EmptyArray>>)
    ELSE LET sma == calculate_sma(prices, window).ret[1]
             len == Len(prices.data) - window + 1
             rolling_std ==
                 [i \in 1..len |-> np_std(Slice(prices.data, i - 1, i - 1 + window))]
             upper_band ==
                 [i \in 1..len |->
                     SurdShift(SurdScale(rolling_std[i], FromInt(num_std)), sma.data[i])]
             lower_band ==
                 [i \in 1..len |->
                     SurdShift(SurdScale(rolling_std[i], FromInt(-num_std)), sma.data[i])]
         IN  Return(<<sma, Array("float64", upper_band), Array("float64", lower_band)>>)

\* ----------------------------------------------------------------- StockData
\* A StockData object is [symbol, file]: file is what np.genfromtxt finds at
\* file_path, [exists, close] with close the Close column of the data rows.

\* StockData.load_data: [ok, data].  It fails (the exception is caught and False
\* returned) when the file cannot be read, when it has no data row (ValueError)
\* and when it has one data row: np.genfromtxt then returns a 0-d array, and
\* len(raw_data) raises TypeError.
load_data(stock_data) ==
    IF stock_data.file.exists /\ Len(stock_data.file.close) >= 2
    THEN [ok |-> TRUE, data |-> stock_data.file.close]
    ELSE [ok |-> FALSE, data |-> <<>>]

\* StockData.get_closing_prices of a loaded stock: column 3 of its data.
get_closing_prices(stock) == stock

\* StockAnalyzer.add_stock: the stocks mapping after the call.
add_stock(stocks_, stock_data) ==
    LET loaded == load_data(stock_data)
    IN  IF loaded.ok
        THEN [s \in DOMAIN stocks_ \cup {stock_data.symbol} |->
                 IF s = stock_data.symbol THEN loaded.data ELSE stocks_[s]]
        ELSE stocks_

\* ----------------------------------------------------------------- correlation

\* Whether one of a surd's parts is nan.
SurdIsNaN(x) == IsNaN(x.a) \/ IsNaN(x.c) \/ IsNaN(x.r)

\* x / sqrt(v) for x = c * sqrt(r) and a fraction v >= 0 (x / 0 is nan or inf).
DivSqrt(x, v) ==
    IF SurdIsNaN(x) \/ IsNaN(v) THEN [a |-> Zero, c |-> NaN, r |-> Zero]
    ELSE IF v = Zero THEN [a |-> Zero, c |-> Div(x.c, Zero), r |-> Zero]
    ELSE Surd(Zero, Div(x.c, v), Mul(x.r, v))

\* np.clip(x, -1, 1) for x = c * sqrt(r).
Clip(x) ==
    IF SurdIsNaN(x) THEN x
    ELSE IF SurdSign(FromInt(-1), x.c, x.r) > 0 THEN Surd(Zero, FromInt(1), FromInt(1))
    ELSE IF SurdSign(FromInt(1), x.c, x.r) < 0 THEN Surd(Zero, FromInt(-1), FromInt(1))
    ELSE x

\* One entry of np.cov(x, y): sum((x - mean(x)) * (y - mean(y))) / (len - 1).
np_cov(x, y) ==
    LET mx == np_mean(x)
        my == np_mean(y)
    IN  Div(SumSeq([k \in 1..Len(x) |-> Mul(Sub(x[k], mx), Sub(y[k], my))]),
            FromInt(Len(x) - 1))

\* np.corrcoef(x, y)[0, 1] with the covariance divided twice by the standard
\* deviation of x instead of once by each.
np_corrcoef_by_x(x, y) ==
    LET c01 == Surd(Zero, np_cov(x, y), FromInt(1))
        byRow == IF IsNaN(np_cov(x, y)) THEN DivSqrt([a |-> Zero, c |-> NaN, r |-> Zero], Zero)
                 ELSE DivSqrt(c01, np_cov(x, x))
    IN  Clip(DivSqrt(byRow, np_cov(x, x)))

\* np.corrcoef(x, y)[0, 1]: the covariance divided by the two standard
\* deviations, one after the other, and clipped to [-1, 1].
np_corrcoef(x, y) ==
    LET c01 == Surd(Zero, np_cov(x, y), FromInt(1))
        byRow == IF IsNaN(np_cov(x, y)) THEN DivSqrt([a |-> Zero, c |-> NaN, r |-> Zero], Zero)
                 ELSE DivSqrt(c01, np_cov(x, x))
    IN  Clip(DivSqrt(byRow, np_cov(y, y)))

\* float('inf'), the start of min_length, is kept as -1.
MinLength(min_length, len) ==
    IF min_length < 0 \/ len < min_length THEN len ELSE min_length

\* first_pass with a symbol that has no data skipped instead of ending the call.
RECURSIVE first_pass_skip(_, _, _, _, _)
first_pass_skip(stocks_, symbols, i, keys, min_length) ==
    IF i > Len(symbols)
    THEN [ok |-> TRUE, keys |-> keys, min_length |-> min_length]
    ELSE LET symbol == symbols[i] IN
         IF symbol \in DOMAIN stocks_ /\ Len(get_closing_prices(stocks_[symbol])) > 0
         THEN first_pass_skip(stocks_, symbols, i + 1,
                              IF \E k \in 1..Len(keys) : keys[k] = symbol
                              THEN keys ELSE Append(keys, symbol),
                              MinLength(min_length, Len(get_closing_prices(stocks_[symbol]))))
         ELSE first_pass_skip(stocks_, symbols, i + 1, keys, min_length)

\* The first pass over symbols[i..]: [ok, keys, min_length], with keys the keys
\* of price_data in insertion order; ok is FALSE where the code returns None.
RECURSIVE first_pass(_, _, _, _, _)
first_pass(stocks_, symbols, i, keys, min_length) ==
    IF i > Len(symbols)
    THEN [ok |-> TRUE, keys |-> keys, min_length |-> min_length]
    ELSE LET symbol == symbols[i] IN
         IF symbol \in DOMAIN stocks_
         THEN LET prices == get_closing_prices(stocks_[symbol]) IN
              IF Len(prices) > 0
              THEN first_pass(stocks_, symbols, i + 1,
                              IF \E k \in 1..Len(keys) : keys[k] = symbol
                              THEN keys ELSE Append(keys, symbol),
                              MinLength(min_length, Len(prices)))
              ELSE [ok |-> FALSE, keys |-> keys, min_length |-> min_length]
         ELSE [ok |-> FALSE, keys |-> keys, min_length |-> min_length]

\* aligned_returns with the series trimmed to its first min_length observations
\* instead of its last.
aligned_returns_from_start(prices, min_length) ==
    LET trimmed_prices == SubSeq(prices, 1, min_length)
    IN  [k \in 1..(min_length - 1) |->
            Div(Sub(trimmed_prices[k + 1], trimmed_prices[k]), trimmed_prices[k])]

\* The second pass for one symbol: prices[-min_length:], then
\* np.diff(trimmed_prices) / trimmed_prices[:-1].
aligned_returns(prices, min_length) ==
    LET trimmed_prices == SubSeq(prices, Len(prices) - min_length + 1, Len(prices))
    IN  [k \in 1..(min_length - 1) |->
            Div(Sub(trimmed_prices[k + 1], trimmed_prices[k]), trimmed_prices[k])]

calculate_correlation_matrix(stocks_, symbols) ==
    IF Len(symbols) < 2
    THEN [outcome |-> "return None", ret |-> <<>>]
    ELSE LET pass == first_pass(stocks_, symbols, 1, <<>>, -1) IN
         IF ~pass.ok
         THEN [outcome |-> "return None", ret |-> <<>>]
         ELSE LET symbols_list == pass.keys
                  n == Len(symbols_list)
                  returns == [k \in 1..n |->
                      aligned_returns(get_closing_prices(stocks_[symbols_list[k]]),
                                      pass.min_length)]
                  corr_matrix == [i \in 1..n |-> [j \in 1..n |->
                                      np_corrcoef(returns[i], returns[j])]]
              IN  Return(<<symbols_list, corr_matrix>>)

\* ----------------------------------------------------------------- main
\* select_multiple_stocks(stocks, min_count, max_count), as the frame of the
\* call: keys is list(stocks.keys()), selected the list built so far, and pc
\* says whether the loop waits for the next input or the function has returned.

SelectFrame(keys, min_count, max_count, selected, pc) ==
    [op |-> "select_multiple_stocks", keys |-> keys, min_count |-> min_count,
     max_count |-> max_count, selected |-> selected, pc |-> pc]

\* while len(selected) < max_count: ... / return selected
while_test(selected, max_count) ==
    IF Len(selected) < max_count THEN "input" ELSE "returned"

\* The function up to its first input().
select_multiple_stocks(keys, min_count, max_count) ==
    IF Len(keys) < min_count
    THEN SelectFrame(keys, min_count, max_count, <<>>, "returned")
    ELSE SelectFrame(keys, min_count, max_count, <<>>, while_test(<<>>, max_count))

\* loop_body without the test that the symbol is not selected yet.
loop_body_without_membership_test(frame, input) ==
    LET again == SelectFrame(frame.keys, frame.min_count, frame.max_count,
                             frame.selected,
                             while_test(frame.selected, frame.max_count))
    IN  IF input.kind = "text" THEN again
        ELSE IF input.value = 0
        THEN IF Len(frame.selected) >= frame.min_count
             THEN SelectFrame(frame.keys, frame.min_count, frame.max_count,
                              frame.selected, "returned")
             ELSE again
        ELSE IF 1 <= input.value /\ input.value <= Len(frame.keys)
        THEN LET selected == Append(frame.selected, frame.keys[input.value])
             IN  SelectFrame(frame.keys, frame.min_count, frame.max_count,
                             selected, while_test(selected, frame.max_count))
        ELSE again

\* One pass of the loop body on one line of input, up to the next input() or
\* the return: int(input(...)) raises ValueError on a line that is no number.
loop_body(frame, input) ==
    LET again == SelectFrame(frame.keys, frame.min_count, frame.max_count,
                             frame.selected,
                             while_test(frame.selected, frame.max_count))
    IN  IF input.kind = "text" THEN again
        ELSE IF input.value = 0
        THEN IF Len(frame.selected) >= frame.min_count
             THEN SelectFrame(frame.keys, frame.min_count, frame.max_count,
                              frame.selected, "returned")
             ELSE again
        ELSE IF 1 <= input.value /\ input.value <= Len(frame.keys)
        THEN LET symbol == frame.keys[input.value] IN
             IF \A k \in 1..Len(frame.selected) : frame.selected[k] # symbol
             THEN LET selected == Append(frame.selected, symbol)
                  IN  SelectFrame(frame.keys, frame.min_count, frame.max_count,
                                  selected, while_test(selected, frame.max_count))
             ELSE again
        ELSE again

\* ----------------------------------------------------------------- StockVisualizer
\* generate_comprehensive_report for one stock, from the latest values of its
\* indicators.  A latest value is <<>> for None and <<x>> for the float x.

None == <<>>

Some(x) == <<x>>

\* The truth value Python gives a latest value: None and 0.0 are false, every
\* other float, nan included, is true.
Truthy(v) == v # None /\ v[1] # FromInt(0)

rsi_status(current_rsi) ==
    IF Truthy(current_rsi) /\ Less(FromInt(70), current_rsi[1]) THEN "Overbought"
    ELSE IF Truthy(current_rsi) /\ Less(current_rsi[1], FromInt(30)) THEN "Oversold"
    ELSE "Neutral"

macd_trend(current_macd, current_signal) ==
    IF /\ Truthy(current_macd)
       /\ Truthy(current_signal)
       /\ Less(current_signal[1], current_macd[1])
    THEN "Bullish"
    ELSE "Bearish"

\* bands is <<>> for empty band arrays and <<lower_band[-1], upper_band[-1]>>
\* otherwise.
bollinger_status(current_price, bands) ==
    IF Truthy(current_price) /\ bands # <<>> /\ Less(bands[2], current_price[1])
    THEN "Price above upper band (Potential overbought)"
    ELSE IF Truthy(current_price) /\ bands # <<>> /\ Less(current_price[1], bands[1])
    THEN "Price below lower band (Potential oversold)"
    ELSE "Price within bands"

\* The counters <<bullish_signals, bearish_signals>> after the RSI block, after
\* the MACD block and after the Bollinger block.
rsi_signals(signals, current_rsi) ==
    IF current_rsi # None
    THEN IF Less(current_rsi[1], FromInt(30)) THEN <<signals[1] + 1, signals[2]>>
         ELSE IF Less(FromInt(70), current_rsi[1]) THEN <<signals[1], signals[2] + 1>>
         ELSE signals
    ELSE signals

macd_signals(signals, current_macd, current_signal) ==
    IF current_macd # None /\ current_signal # None
    THEN IF Less(current_signal[1], current_macd[1])
         THEN <<signals[1] + 1, signals[2]>>
         ELSE <<signals[1], signals[2] + 1>>
    ELSE signals

bollinger_signals(signals, current_price, bands) ==
    IF bands # <<>>
    THEN IF Less(current_price[1], bands[1]) THEN <<signals[1] + 1, signals[2]>>
         ELSE IF Less(bands[2], current_price[1]) THEN <<signals[1], signals[2] + 1>>
         ELSE signals
    ELSE signals

recommendation(signals) ==
    IF signals[1] > signals[2] THEN "Bullish - Consider buying/holding"
    ELSE IF signals[2] > signals[1] THEN "Bearish - Consider selling/waiting"
    ELSE "Neutral - Monitor for clearer signals"

\* stock_data of one stock, with the counters as they stand after each block.
report_stock(current_rsi, current_macd, current_signal, current_price, bands) ==
    LET after_rsi == rsi_signals(<<0, 0>>, current_rsi)
        after_macd == macd_signals(after_rsi, current_macd, current_signal)
        after_bollinger == bollinger_signals(after_macd, current_price, bands)
    IN  [rsi_status |-> rsi_status(current_rsi),
         macd_trend |-> macd_trend(current_macd, current_signal),
         bollinger_status |-> bollinger_status(current_price, bands),
         after_rsi |-> after_rsi,
         after_macd |-> after_macd,
         after_bollinger |-> after_bollinger,
         recommendation |-> recommendation(after_bollinger)]

\* ----------------------------------------------------------------- inputs

Dtypes == {"float64", "int64"}

PriceSeqs == UNION {[1..n -> {FromInt(p) : p \in 1..MaxPrice}] : n \in 0..MaxLen}

PriceArrays == {Array(t, s) : t \in Dtypes, s \in PriceSeqs}

Windows == 1..MaxWindow

\* num_std of calculate_bollinger_bands: its default, and smaller whole numbers.
DefaultNumStd == 2

NumStds == (-1)..DefaultNumStd

NoCall == [op |-> "none"]

\* The symbols a stock file can be loaded for, and the symbols a caller can ask for.
Symbols == {"AAPL", "GOOGL"}

RequestSymbols == Symbols \cup {"MSFT"}

\* The closing prices in the stock files.
CloseValues == {FromInt(1), FromInt(2)}

Files ==
    {[exists |-> FALSE, close |-> <<>>]}
    \cup {[exists |-> TRUE, close |-> c] :
              c \in UNION {[1..n -> CloseValues] : n \in 0..MaxRows}}

StockDatas == {[symbol |-> s, file |-> f] : s \in Symbols, f \in Files}

SymbolLists == UNION {[1..n -> RequestSymbols] : n \in 0..MaxSymbols}

\* The stock files of a session: a missing file and two files of closing prices.
SampleFiles ==
    {[exists |-> FALSE, close |-> <<>>],
     [exists |-> TRUE, close |-> <<FromInt(1), FromInt(2), FromInt(2), FromInt(1)>>],
     [exists |-> TRUE, close |-> <<FromInt(2), FromInt(1), FromInt(2)>>]}

SampleStockDatas == {[symbol |-> s, file |-> f] : s \in Symbols, f \in SampleFiles}

\* The stocks a selection is made from: any of the symbols, each with prices.
StockDicts ==
    {[symbol \in K |-> <<FromInt(1), FromInt(2)>>] : K \in SUBSET RequestSymbols}

\* list(stocks.keys()): a dict lists its keys in the order they were inserted,
\* which a mapping does not record, so every order of the keys.
KeyOrders(stocks_) ==
    {keys \in [1..Cardinality(DOMAIN stocks_) -> DOMAIN stocks_] :
        \A i, j \in DOMAIN keys : i # j => keys[i] # keys[j]}

\* The lines a user can type: a number from -1 to one past the last stock, or
\* something that is no number.
Inputs ==
    {[kind |-> "text", value |-> 0]}
    \cup {[kind |-> "number", value |-> v] :
              v \in (-1)..(Cardinality(RequestSymbols) + 1)}

\* The latest values a report can meet.  rsi[-1] lies in [0, 100] or is nan;
\* macd and signal have the same length, so both or neither have a latest value.
LatestRsi ==
    {None} \cup {Some(NaN)}
    \cup {Some(FromInt(v)) : v \in {0, 20, 30, 50, 70, 80, 100}}

LatestMacd == {Some(NaN)} \cup {Some(FromInt(v)) : v \in (-1)..1}

LatestMacdAndSignal ==
    {<<None, None>>} \cup {<<m, g>> : m \in LatestMacd, g \in LatestMacd}

LatestPrices == {Some(FromInt(v)) : v \in 1..3}

LatestBands == {<<>>, <<FromInt(2), FromInt(2)>>, <<FromInt(1), FromInt(3)>>}

\* ----------------------------------------------------------------- actions

\* The caller holds one price series and no stock is loaded.
Init ==
    /\ stocks = <<>>
    /\ price_series \in PriceArrays
    /\ call = NoCall

CallSma ==
    /\ call = NoCall
    /\ \E window \in Windows :
        call' = [op |-> "calculate_sma", window |-> window,
                 result |-> calculate_sma(price_series, window)]
    /\ UNCHANGED <<stocks, price_series>>

\* CallEma with ema bound to prices itself instead of np.zeros_like(prices): the
\* loop stores its entries into the caller's series.
CallEma_in_place ==
    /\ call = NoCall
    /\ \E window \in Windows :
        LET result == calculate_ema(price_series, window) IN
        /\ call' = [op |-> "calculate_ema", window |-> window, result |-> result]
        /\ price_series' = IF Len(result.ret[1].data) > 0
                           THEN Array(price_series.dtype, result.ret[1].data)
                           ELSE price_series
    /\ UNCHANGED stocks

CallEma ==
    /\ call = NoCall
    /\ \E window \in Windows :
        call' = [op |-> "calculate_ema", window |-> window,
                 result |-> calculate_ema(price_series, window)]
    /\ UNCHANGED <<stocks, price_series>>

CallRsi ==
    /\ call = NoCall
    /\ \E window \in Windows :
        call' = [op |-> "calculate_rsi", window |-> window,
                 result |-> calculate_rsi(price_series, window)]
    /\ UNCHANGED <<stocks, price_series>>

CallMacd ==
    /\ call = NoCall
    /\ \E short_window \in Windows, long_window \in Windows, signal_window \in Windows :
        call' = [op |-> "calculate_macd", short_window |-> short_window,
                 long_window |-> long_window, signal_window |-> signal_window,
                 result |-> calculate_macd(price_series, short_window, long_window,
                                           signal_window)]
    /\ UNCHANGED <<stocks, price_series>>

CallBollinger ==
    /\ call = NoCall
    /\ \E window \in Windows, num_std \in NumStds :
        call' = [op |-> "calculate_bollinger_bands", window |-> window,
                 num_std |-> num_std,
                 result |-> calculate_bollinger_bands(price_series, window, num_std)]
    /\ UNCHANGED <<stocks, price_series>>

\* The caller has used the outcome of the call and goes on.
Continue ==
    /\ call # NoCall
    /\ call' = NoCall
    /\ UNCHANGED <<stocks, price_series>>

Next ==
    \/ CallSma
    \/ CallEma
    \/ CallRsi
    \/ CallMacd
    \/ CallBollinger
    \/ Continue

Spec == Init /\ [][Next]_vars

\* The analyzer with its stocks: files are loaded and correlations asked for.
InitCorr ==
    /\ stocks = <<>>
    /\ price_series = EmptyArray
    /\ call = NoCall

AddStock ==
    /\ call = NoCall
    /\ \E stock_data \in StockDatas : stocks' = add_stock(stocks, stock_data)
    /\ UNCHANGED <<price_series, call>>

CallCorrelation ==
    /\ call = NoCall
    /\ \E symbols \in SymbolLists :
        call' = [op |-> "calculate_correlation_matrix", symbols |-> symbols,
                 result |-> calculate_correlation_matrix(stocks, symbols)]
    /\ UNCHANGED <<stocks, price_series>>

NextCorr ==
    \/ AddStock
    \/ CallCorrelation
    \/ Continue

SpecCorr == InitCorr /\ [][NextCorr]_vars

\* A session of the program: the sample files are loaded, the closing prices of
\* a loaded stock are taken, and every engine is called on what the session holds.
InitSession ==
    /\ stocks = <<>>
    /\ price_series = EmptyArray
    /\ call = NoCall

LoadStock ==
    /\ call = NoCall
    /\ \E stock_data \in SampleStockDatas : stocks' = add_stock(stocks, stock_data)
    /\ UNCHANGED <<price_series, call>>

\* prices = stock.get_closing_prices(); the file decides whether the column is
\* read as int64 or as float64.
GetClosingPrices ==
    /\ call = NoCall
    /\ \E symbol \in DOMAIN stocks, dtype \in Dtypes :
        price_series' = Array(dtype, get_closing_prices(stocks[symbol]))
    /\ UNCHANGED <<stocks, call>>

NextSession ==
    \/ LoadStock
    \/ GetClosingPrices
    \/ CallSma
    \/ CallEma
    \/ CallRsi
    \/ CallMacd
    \/ CallBollinger
    \/ CallCorrelation
    \/ Continue

SpecSession == InitSession /\ [][NextSession]_vars

\* The selection of stocks: a caller with some stocks enters
\* select_multiple_stocks, the user types lines, the function returns.
InitSelect ==
    /\ stocks \in StockDicts
    /\ price_series = EmptyArray
    /\ call = NoCall

CallSelect ==
    /\ call = NoCall
    /\ \E keys \in KeyOrders(stocks), min_count \in 1..MaxCount :
         \E max_count \in min_count..MaxCount :
            call' = select_multiple_stocks(keys, min_count, max_count)
    /\ UNCHANGED <<stocks, price_series>>

ReadInput ==
    /\ call.op = "select_multiple_stocks"
    /\ call.pc = "input"
    /\ \E input \in Inputs : call' = loop_body(call, input)
    /\ UNCHANGED <<stocks, price_series>>

ReturnSelected ==
    /\ call.op = "select_multiple_stocks"
    /\ call.pc = "returned"
    /\ call' = NoCall
    /\ UNCHANGED <<stocks, price_series>>

NextSelect ==
    \/ CallSelect
    \/ ReadInput
    \/ ReturnSelected

SpecSelect == InitSelect /\ [][NextSelect]_vars

\* The report on one stock, for the latest values of its indicators.
InitReport ==
    /\ stocks = <<>>
    /\ price_series = EmptyArray
    /\ call = NoCall

CallReport ==
    /\ call = NoCall
    /\ \E current_rsi \in LatestRsi, macd_and_signal \in LatestMacdAndSignal,
          current_price \in LatestPrices, bands \in LatestBands :
        call' = [op |-> "generate_comprehensive_report",
                 current_rsi |-> current_rsi,
                 current_macd |-> macd_and_signal[1],
                 current_signal |-> macd_and_signal[2],
                 current_price |-> current_price,
                 bands |-> bands,
                 stock_data |-> report_stock(current_rsi, macd_and_signal[1],
                                             macd_and_signal[2], current_price, bands)]
    /\ UNCHANGED <<stocks, price_series>>

NextReport ==
    \/ CallReport
    \/ Continue

SpecReport == InitReport /\ [][NextReport]_vars

\* ----------------------------------------------------------------- properties

\* The length of the caller's price series, and its entries.
N == Len(price_series.data)

P == price_series.data

\* The arithmetic mean of a non-empty sequence of fractions.
Mean(s) == Div(SumSeq(s), FromInt(Len(s)))

Max(a, b) == IF a > b THEN a ELSE b

Hundred == FromInt(100)

\* C1: for every price series and every window >= 1, calculate_rsi returns (it
\* raises nothing): an empty array when len(prices) < window, and otherwise,
\* len(prices) == window included, an array of len(prices) entries.
C1_RsiReturnsForEveryLength ==
    call.op = "calculate_rsi" =>
        /\ call.result.outcome = "return"
        /\ Len(call.result.ret[1].data) = (IF N < call.window THEN 0 ELSE N)

\* C2: for every price series shorter than long_window, calculate_macd returns an
\* empty macd line and an empty signal line and raises nothing.
C2_MacdEmptyBelowLongWindow ==
    (call.op = "calculate_macd" /\ N < call.long_window) =>
        /\ call.result.outcome = "return"
        /\ call.result.ret[1].data = <<>>
        /\ call.result.ret[2].data = <<>>

\* A symbol that is not in stocks or has no closing price.
BadSymbol(symbol) ==
    \/ symbol \notin DOMAIN stocks
    \/ Len(get_closing_prices(stocks[symbol])) = 0

AvgLoss == rsi_avg(price_series.dtype, N, call.window, rsi_losses(P))

\* C4: at every index i >= window of calculate_rsi's result where avg_loss[i] is
\* 0, rsi[i] is exactly 100, also when avg_gain[i] is 0 too.
C4_RsiIsHundredWithoutLosses ==
    (call.op = "calculate_rsi" /\ N > call.window /\ call.result.outcome = "return") =>
        \A i \in (call.window + 1)..N :
            AvgLoss[i] = Zero => call.result.ret[1].data[i] = Hundred

\* C5: calculate_sma returns max(0, len(prices) - window + 1) entries, entry k
\* the arithmetic mean of prices[k .. k + window - 1]; nothing is raised, and
\* the result is empty when len(prices) < window.
C5_SmaIsTheRunningMean ==
    call.op = "calculate_sma" =>
        /\ call.result.outcome = "return"
        /\ Len(call.result.ret[1].data) = Max(0, N - call.window + 1)
        /\ \A k \in 1..Len(call.result.ret[1].data) :
               call.result.ret[1].data[k] = Mean(SubSeq(P, k, k + call.window - 1))

\* A window of two or more prices slid over a longer series, with two
\* different means.
C5_Witness ==
    /\ call.op = "calculate_sma"
    /\ call.window >= 2
    /\ N > call.window
    /\ call.result.ret[1].data[1] # call.result.ret[1].data[2]

\* alpha of calculate_ema for the latest call's window.
Alpha == Div(FromInt(2), FromInt(call.window + 1))

\* C6: for len(prices) >= window, calculate_ema returns len(prices) entries, each
\* of the first window entries the mean of prices[0:window] and every later entry
\* alpha * prices[i] + (1 - alpha) * ema[i-1]; for len(prices) < window it
\* returns an empty array.
C6_EmaIsSeedThenRecurrence ==
    call.op = "calculate_ema" =>
        /\ call.result.outcome = "return"
        /\ IF N < call.window
           THEN call.result.ret[1].data = <<>>
           ELSE /\ Len(call.result.ret[1].data) = N
                /\ \A i \in 1..N :
                       call.result.ret[1].data[i] =
                           IF i <= call.window
                           THEN Mean(SubSeq(P, 1, call.window))
                           ELSE Add(Mul(Alpha, P[i]),
                                    Mul(Sub(FromInt(1), Alpha),
                                        call.result.ret[1].data[i - 1]))

\* The bands of the latest calculate_bollinger_bands call at index i, and whether
\* the standard deviation of window i is 0.
SmaAt(i) == Rat(call.result.ret[1].data[i])

UpperAt(i) == call.result.ret[2].data[i]

LowerAt(i) == call.result.ret[3].data[i]

StdIsZero(i) == SurdCompare(np_std(SubSeq(P, i, i + call.window - 1)), Rat(Zero)) = 0

BandsInOrder(i) ==
    /\ SurdCompare(LowerAt(i), SmaAt(i)) <= 0
    /\ SurdCompare(SmaAt(i), UpperAt(i)) <= 0

BandTouchesSma(i) ==
    \/ SurdCompare(LowerAt(i), SmaAt(i)) = 0
    \/ SurdCompare(SmaAt(i), UpperAt(i)) = 0

\* C7 as claimed: for len(prices) >= window and every num_std, at every index
\* lower_band[i] <= sma[i] <= upper_band[i], with equality only when the rolling
\* standard deviation of window i is 0.
C7_BandsInOrderForEveryNumStd ==
    (call.op = "calculate_bollinger_bands" /\ N >= call.window) =>
        \A i \in 1..(N - call.window + 1) :
            /\ BandsInOrder(i)
            /\ BandTouchesSma(i) => StdIsZero(i)

\* C7 as amended: for len(prices) >= window and every num_std >= 0, at every
\* index lower_band[i] <= sma[i] <= upper_band[i], with equality only when
\* num_std is 0 or the rolling standard deviation of window i is 0.
C7_BandsInOrderForNonNegativeNumStd ==
    (call.op = "calculate_bollinger_bands" /\ N >= call.window /\ call.num_std >= 0) =>
        \A i \in 1..(N - call.window + 1) :
            /\ BandsInOrder(i)
            /\ BandTouchesSma(i) => (call.num_std = 0 \/ StdIsZero(i))

\* Bands strictly around the average: a positive num_std on a window whose
\* prices differ.
C7_Witness ==
    /\ call.op = "calculate_bollinger_bands"
    /\ N >= call.window
    /\ call.num_std > 0
    /\ \E i \in 1..(N - call.window + 1) :
           /\ ~StdIsZero(i)
           /\ SurdCompare(LowerAt(i), SmaAt(i)) < 0
           /\ SurdCompare(SmaAt(i), UpperAt(i)) < 0

\* The matrix of the latest calculate_correlation_matrix call, its symbols, and
\* the return series of its k-th symbol.
CorrSymbols == call.result.ret[1]

CorrMatrix == call.result.ret[2]

CorrMinLength == first_pass(stocks, call.symbols, 1, <<>>, -1).min_length

ReturnsOf(k) ==
    aligned_returns(get_closing_prices(stocks[CorrSymbols[k]]), CorrMinLength)

\* A return series from which a correlation can be computed: two returns or
\* more, all finite and not all equal.
NonDegenerate(r) ==
    /\ Len(r) >= 2
    /\ \A k \in 1..Len(r) : IsFinite(r[k])
    /\ \E k \in 1..Len(r) : r[k] # r[1]

\* Two correlation coefficients c * sqrt(r) are the same real number.
SameCoefficient(x, y) ==
    /\ ~SurdIsNaN(x)
    /\ ~SurdIsNaN(y)
    /\ x.a = Zero
    /\ y.a = Zero
    /\ Sign(x.c[1]) = Sign(y.c[1])
    /\ Mul(Mul(x.c, x.c), x.r) = Mul(Mul(y.c, y.c), y.r)

\* A correlation coefficient c * sqrt(r) is the number 1.
IsOne(x) ==
    /\ ~SurdIsNaN(x)
    /\ x.a = Zero
    /\ SurdSign(FromInt(-1), x.c, x.r) = 0

\* C8: a matrix returned by calculate_correlation_matrix for symbols whose return
\* series are non-degenerate is symmetric and has 1.0 at every diagonal entry.
C8_MatrixSymmetricWithUnitDiagonal ==
    (/\ call.op = "calculate_correlation_matrix"
     /\ call.result.outcome = "return"
     /\ \A k \in 1..Len(CorrSymbols) : NonDegenerate(ReturnsOf(k))) =>
        \A i \in 1..Len(CorrSymbols) :
            /\ IsOne(CorrMatrix[i][i])
            /\ \A j \in 1..Len(CorrSymbols) :
                   SameCoefficient(CorrMatrix[i][j], CorrMatrix[j][i])

\* A matrix of two stocks whose returns are neither uncorrelated nor fully
\* correlated.
C8_Witness ==
    /\ call.op = "calculate_correlation_matrix"
    /\ call.result.outcome = "return"
    /\ Len(CorrSymbols) = 2
    /\ \A k \in 1..2 : NonDegenerate(ReturnsOf(k))
    /\ ~SurdIsNaN(CorrMatrix[1][2])
    /\ CorrMatrix[1][2].c # Zero
    /\ ~IsOne(CorrMatrix[1][2])
    /\ Mul(Mul(CorrMatrix[1][2].c, CorrMatrix[1][2].c), CorrMatrix[1][2].r) # FromInt(1)

\* The two averages and the lines of the latest calculate_macd call.
EmaShort == calculate_ema(price_series, call.short_window).ret[1]

EmaLong == calculate_ema(price_series, call.long_window).ret[1]

MacdLine == call.result.ret[1]

SignalLine == call.result.ret[2]

MacdIsTheDifference ==
    /\ Len(MacdLine.data) = N
    /\ Len(EmaShort.data) = N
    /\ Len(EmaLong.data) = N
    /\ \A i \in 1..N : MacdLine.data[i] = Sub(EmaShort.data[i], EmaLong.data[i])

\* C9 as claimed: for len(prices) >= long_window, calculate_macd returns a macd
\* line of len(prices) entries, macd[i] = EMA(prices, short_window)[i] -
\* EMA(prices, long_window)[i], and a signal line equal to
\* EMA(macd, signal_window), of the same length.
C9_MacdFromLongWindowOn ==
    (call.op = "calculate_macd" /\ N >= call.long_window) =>
        /\ call.result.outcome = "return"
        /\ MacdIsTheDifference
        /\ SignalLine = calculate_ema(MacdLine, call.signal_window).ret[1]
        /\ Len(SignalLine.data) = N

\* C9 as amended: for len(prices) >= max(short_window, long_window),
\* calculate_macd returns a macd line of len(prices) entries, macd[i] =
\* EMA(prices, short_window)[i] - EMA(prices, long_window)[i], and a signal line
\* equal to EMA(macd, signal_window): of len(prices) entries when
\* signal_window <= len(prices), and empty otherwise.
C9_MacdFromBothWindowsOn ==
    (/\ call.op = "calculate_macd"
     /\ N >= call.long_window
     /\ N >= call.short_window) =>
        /\ call.result.outcome = "return"
        /\ MacdIsTheDifference
        /\ SignalLine = calculate_ema(MacdLine, call.signal_window).ret[1]
        /\ Len(SignalLine.data) = (IF call.signal_window <= N THEN N ELSE 0)

\* A macd line that is not zero everywhere, from two different windows on a
\* series longer than both, with a signal line of its length.
C9_Witness ==
    /\ call.op = "calculate_macd"
    /\ call.short_window < call.long_window
    /\ N > call.long_window
    /\ call.signal_window <= N
    /\ call.result.outcome = "return"
    /\ Len(SignalLine.data) = N
    /\ \E i \in 1..N : MacdLine.data[i] # Zero

\* C10: for len(prices) > window (prices non-negative), every entry of
\* calculate_rsi's result at an index >= window lies in [0, 100].
C10_RsiBetweenZeroAndHundred ==
    (call.op = "calculate_rsi" /\ N > call.window /\ call.result.outcome = "return") =>
        \A i \in (call.window + 1)..N :
            /\ Leq(Zero, call.result.ret[1].data[i])
            /\ Leq(call.result.ret[1].data[i], Hundred)

\* The shortest closing-price series among the requested symbols of the latest
\* calculate_correlation_matrix call.
ShortestRequested ==
    LET lens == {Len(stocks[call.symbols[i]]) : i \in 1..Len(call.symbols)}
    IN  CHOOSE m \in lens : \A l \in lens : m <= l

\* The closing prices stored for the k-th symbol of the returned matrix.
ClosesOf(k) == stocks[CorrSymbols[k]]

\* C11: in a successful calculate_correlation_matrix call, with minLength the
\* shortest requested series, every symbol's return series has minLength - 1
\* entries, and entry k is (p[k+1] - p[k]) / p[k] over the last minLength closing
\* prices of that symbol, in their original order.
C11_ReturnsOfTheLastMinLengthPrices ==
    (call.op = "calculate_correlation_matrix" /\ call.result.outcome = "return") =>
        \A s \in 1..Len(CorrSymbols) :
            LET off == Len(ClosesOf(s)) - ShortestRequested IN
            /\ off >= 0
            /\ Len(ReturnsOf(s)) = ShortestRequested - 1
            /\ \A k \in 1..(ShortestRequested - 1) :
                   ReturnsOf(s)[k] =
                       Div(Sub(ClosesOf(s)[off + k + 1], ClosesOf(s)[off + k]),
                           ClosesOf(s)[off + k])

\* A matrix of two stocks of different lengths, where the longer series starts
\* with a price change that its last observations do not repeat.
C11_Witness ==
    /\ call.op = "calculate_correlation_matrix"
    /\ call.result.outcome = "return"
    /\ \E s \in 1..Len(CorrSymbols) :
           /\ Len(ClosesOf(s)) > ShortestRequested
           /\ ShortestRequested >= 2
           /\ ReturnsOf(s) # aligned_returns_from_start(ClosesOf(s), ShortestRequested)

\* The return series of the k-th requested symbol of the latest
\* calculate_correlation_matrix call.
RequestedReturnsOf(k) ==
    aligned_returns(get_closing_prices(stocks[call.symbols[k]]), CorrMinLength)

\* C12: whenever calculate_correlation_matrix succeeds on a requested list of n
\* entries, the returned symbol list is the requested list in the caller's
\* order, the matrix is n x n, and row and column k belong to the k-th requested
\* symbol, also when the requested list repeats a symbol.
C12_MatrixFollowsTheRequestedList ==
    (call.op = "calculate_correlation_matrix" /\ call.result.outcome = "return") =>
        LET n == Len(call.symbols) IN
        /\ CorrSymbols = call.symbols
        /\ Len(CorrMatrix) = n
        /\ \A i \in 1..Len(CorrMatrix) :
               /\ Len(CorrMatrix[i]) = n
               /\ \A j \in 1..Len(CorrMatrix[i]) :
                      (i <= n /\ j <= n) =>
                          CorrMatrix[i][j] = np_corrcoef(RequestedReturnsOf(i),
                                                         RequestedReturnsOf(j))

\* The population variance of s, as the mean of the squares less the square of
\* the mean.
Variance(s) ==
    Sub(Mean([k \in 1..Len(s) |-> Mul(s[k], s[k])]), Mul(Mean(s), Mean(s)))

\* The real number x = a + c * sqrt(r) is k times the square root of v.
IsTimesRootOf(x, k, v) ==
    /\ ~SurdIsNaN(x)
    /\ x.a = Zero
    /\ Mul(FromInt(Sign(x.c[1])), Mul(Mul(x.c, x.c), x.r))
           = Mul(FromInt(Sign(k)), Mul(FromInt(k * k), v))

\* C13: calculate_bollinger_bands returns three sequences of the same length
\* max(0, len(prices) - window + 1): all empty when len(prices) < window, and
\* otherwise the first is calculate_sma(prices, window) and at every index i
\* upper_band[i] - sma[i] and sma[i] - lower_band[i] both equal num_std times
\* the population standard deviation of prices[i..i+window-1].
C13_BandsAreSmaPlusMinusStd ==
    (call.op = "calculate_bollinger_bands") =>
        LET len == Max(0, N - call.window + 1) IN
        /\ call.result.outcome = "return"
        /\ \A b \in 1..3 : Len(call.result.ret[b].data) = len
        /\ N >= call.window =>
               /\ call.result.ret[1] = calculate_sma(price_series, call.window).ret[1]
               /\ \A i \in 1..len :
                      LET v == Variance(SubSeq(P, i, i + call.window - 1)) IN
                      /\ IsTimesRootOf(SurdShift(UpperAt(i), Neg(SmaAt(i).a)),
                                       call.num_std, v)
                      /\ IsTimesRootOf(SurdShift(SurdScale(LowerAt(i), FromInt(-1)),
                                                 SmaAt(i).a),
                                       call.num_std, v)

\* Bands with the default num_std around a window of three prices that are not
\* all equal, on a series longer than the window.
C13_Witness ==
    /\ call.op = "calculate_bollinger_bands"
    /\ call.num_std = DefaultNumStd
    /\ call.window = MaxWindow
    /\ N > call.window
    /\ Len(call.result.ret[2].data) = N - call.window + 1
    /\ \E i \in 1..(N - call.window + 1) :
           Variance(SubSeq(P, i, i + call.window - 1)) # Zero

C15_EmaOfConstantSeriesIsConstant ==
    (/\ call.op = "calculate_ema"
     /\ N >= call.window
     /\ \A i \in 1..N : P[i] = P[1]) =>
        /\ call.result.outcome = "return"
        /\ Len(call.result.ret[1].data) = N
        /\ \A i \in 1..N : call.result.ret[1].data[i] = P[1]

\* calculate_ema on a constant series of more entries than the window, so that
\* the recurrence has run.
C15_Witness ==
    /\ call.op = "calculate_ema"
    /\ N > call.window
    /\ call.window > 1
    /\ \A i \in 1..N : P[i] = P[1]
    /\ Len(call.result.ret[1].data) = N
    /\ call.result.ret[1].data[N] = P[1]

\* The smoothed average the RSI is documented to use, at Python index i >=
\* window, for x the gains or the losses: the mean of x[0:window] at index
\* window, then (avg[i-1] * (window - 1) + x[i-1]) / window.
RECURSIVE SmoothedAverage(_, _, _)
SmoothedAverage(x, window, i) ==
    IF i = window THEN Mean(SubSeq(x, 1, window))
    ELSE Div(Add(Mul(SmoothedAverage(x, window, i - 1), FromInt(window - 1)), x[i]),
             FromInt(window))

\* gains[k] = max(prices[k+1] - prices[k], 0) and losses[k] =
\* max(prices[k] - prices[k+1], 0), for k from 0 (here from 1).
Gains == [k \in 1..(N - 1) |->
             IF Leq(Sub(P[k + 1], P[k]), Zero) THEN Zero ELSE Sub(P[k + 1], P[k])]

Losses == [k \in 1..(N - 1) |->
              IF Leq(Sub(P[k], P[k + 1]), Zero) THEN Zero ELSE Sub(P[k], P[k + 1])]

\* C16: in calculate_rsi with len(prices) > window, avg_gain and avg_loss are
\* the mean of the first window gains (losses) at index window and
\* (avg[i-1] * (window - 1) + x[i-1]) / window for window < i < len(prices), and
\* rsi[i] is 100 - 100 / (1 + avg_gain[i] / avg_loss[i]).
C16_RsiFromSmoothedAverages ==
    (call.op = "calculate_rsi" /\ N > call.window) =>
        /\ call.result.outcome = "return"
        /\ Len(call.result.ret[1].data) = N
        /\ \A i \in call.window..(N - 1) :
               LET avg_gain == SmoothedAverage(Gains, call.window, i)
                   avg_loss == SmoothedAverage(Losses, call.window, i)
               IN  /\ rsi_avg(price_series.dtype, N, call.window, rsi_gains(P))[i + 1]
                          = avg_gain
                   /\ rsi_avg(price_series.dtype, N, call.window, rsi_losses(P))[i + 1]
                          = avg_loss
                   /\ call.result.ret[1].data[i + 1] =
                          Sub(Hundred,
                              Div(Hundred, Add(FromInt(1), Div(avg_gain, avg_loss))))

\* C17: in select_multiple_stocks with 1 <= min_count <= max_count, at every
\* step of the loop the selected list holds only keys of stocks, no symbol
\* twice and at most max_count entries; and when the function returns, the
\* result is empty only if len(stocks) < min_count, and otherwise has between
\* min_count and max_count entries.
C17_SelectionWithinItsCounts ==
    (call.op = "select_multiple_stocks") =>
        /\ \A k \in 1..Len(call.selected) : call.selected[k] \in DOMAIN stocks
        /\ \A i, j \in 1..Len(call.selected) :
               i # j => call.selected[i] # call.selected[j]
        /\ Len(call.selected) <= call.max_count
        /\ call.pc = "returned" =>
               IF call.selected = <<>>
               THEN Cardinality(DOMAIN stocks) < call.min_count
               ELSE /\ call.min_count <= Len(call.selected)
                    /\ Len(call.selected) <= call.max_count

\* The function has returned, on the input 0, a selection of at least two
\* stocks that is shorter than max_count and not in the order of the keys.
C17_Witness ==
    /\ call.op = "select_multiple_stocks"
    /\ call.pc = "returned"
    /\ Len(call.selected) >= 2
    /\ Len(call.selected) < call.max_count
    /\ call.selected[1] # call.keys[1]

\* What the RSI block and the MACD block of the latest report added to the
\* counters <<bullish_signals, bearish_signals>>.
RsiContribution == call.stock_data.after_rsi

MacdContribution ==
    <<call.stock_data.after_macd[1] - call.stock_data.after_rsi[1],
      call.stock_data.after_macd[2] - call.stock_data.after_rsi[2]>>

\* C18: in generate_comprehensive_report, for every combination of latest
\* indicator values, the RSI status is "Oversold" exactly when the RSI adds a
\* bullish signal and "Overbought" exactly when it adds a bearish signal, and
\* the MACD trend is "Bullish" exactly when the MACD comparison adds a bullish
\* signal, also when a latest value is exactly 0.
C18_LabelsAgreeWithSignals ==
    (call.op = "generate_comprehensive_report") =>
        /\ (call.stock_data.rsi_status = "Oversold") <=> (RsiContribution = <<1, 0>>)
        /\ (call.stock_data.rsi_status = "Overbought") <=> (RsiContribution = <<0, 1>>)
        /\ (call.stock_data.macd_trend = "Bullish") <=> (MacdContribution = <<1, 0>>)

====
